---- MODULE Spec2Model ----
(***************************************************************************)
(* Model of gvt's fetch command (src/fetch.go): the single Fetch Step, the *)
(* recursive fetch loop and the import-graph analysis findMissing.         *)
(*                                                                         *)
(* A behaviour of Spec is one run of the program: a process that finds a   *)
(* manifest file and a vendor tree left by earlier runs, parses its flags, *)
(* calls fetch and returns. Sequences of commands are covered by letting   *)
(* the run start from the persisted states that earlier runs leave.        *)
(* The project-local vendor tree is modelled (the flag -g is not given).   *)
(*                                                                         *)
(* A Go string is modelled as a sequence of tokens (chunks of characters), *)
(* so that url parsing and concatenation are computed, not assumed.        *)
(* An import path such as "a" is <<"a">>; "https://a" is <<"https://","a">>*)
(***************************************************************************)
EXTENDS Naturals, Sequences, FiniteSets, TLC

(* ------------------------------ bounds -------------------------------- *)

\* longest import list of a package in the fetch model
MaxImports == 2
\* number of imports of all packages together in the findMissing model
MaxFMEdges == 4
\* longest list of target packages handed to findMissing
MaxTargets == 2
\* most tokens after the scheme of an import path argument in the key model
MaxKeyToks == 3

(* ------------------------------ strings ------------------------------- *)

SchemeTok == "https://"
\* a port, as in example.com:80, and a path segment, as in example.com/x
PortTok == ":80"
SegTok == "/x"
EmptyStr == <<>>

\* tokens in ascending byte order of their first differing character
TokOrder == <<"/x", ":80", "C", "a", "b", "c", "fmt", "https://">>

Rank(tok) == CHOOSE i \in 1..Len(TokOrder) : TokOrder[i] = tok

RECURSIVE StrLess(_, _)
\* Go's string comparison s < t, as sort.Strings uses it
StrLess(s, t) ==
  IF t = <<>> THEN FALSE
  ELSE IF s = <<>> THEN TRUE
  ELSE IF Head(s) = Head(t) THEN StrLess(Tail(s), Tail(t))
  ELSE Rank(Head(s)) < Rank(Head(t))

\* the import paths a repository can be deduced for
Names == {<<"a">>, <<"b">>, <<"c">>}
\* the cgo pseudo package
CPath == <<"C">>
\* the packages under GOROOT/src
StdPkgs == {<<"fmt">>}
\* what a package's source may import
Alphabet == Names \cup {CPath} \cup StdPkgs

\* the import path arguments of the command line
RawPaths == Names \cup {<<SchemeTok, "a">>}

\* net/url.Parse, for the shapes of RawPaths and KeyRaws. After "https://"
\* the authority, with its port, is the Host and the rest is the Path. With no
\* "://", a first segment host:port is read as scheme "host" followed by an
\* opaque part, which leaves Host and Path empty; any other text is the Path.
urlParse(path) ==
  IF path # <<>> /\ Head(path) = SchemeTok
  THEN LET n == IF Len(path) >= 3 /\ path[3] = PortTok THEN 3
                ELSE IF Len(path) >= 2 THEN 2 ELSE 1
       IN [Scheme |-> "https",
           Opaque |-> <<>>,
           Host |-> SubSeq(path, 2, n),
           Path |-> SubSeq(path, n + 1, Len(path))]
  ELSE IF Len(path) >= 2 /\ path[2] = PortTok
  THEN [Scheme |-> path[1], Opaque |-> SubSeq(path, 2, Len(path)),
        Host |-> <<>>, Path |-> <<>>]
  ELSE [Scheme |-> "", Opaque |-> <<>>, Host |-> <<>>, Path |-> path]

stripscheme(path) == urlParse(path).Host \o urlParse(path).Path

(* --------------------------- manifest store --------------------------- *)

\* the flag values of -branch, -tag, -revision
Branches == {"", "dev"}
Tags == {"", "v1"}
Revisions == {"", "r1"}

\* the usage line: fetch [-branch branch] [-revision rev | -tag tag]
Flags ==
  {f \in [branch : Branches, tag : Tags, revision : Revisions] :
     f.tag = "" \/ f.revision = ""}

manifestPaths(m) == {m[i].Importpath : i \in 1..Len(m)}

\* variant: the manifest is taken to hold no import path
HasImportpathNever(m, path) == FALSE

\* variant: the import path is compared with the repository
HasRepository(m, path) == \E i \in 1..Len(m) : m[i].Repository = path

HasImportpath(m, path) == \E i \in 1..Len(m) : m[i].Importpath = path

\* [err, m]: the in-memory manifest after the call
AddDependency(m, dep) ==
  IF HasImportpath(m, dep.Importpath)
  THEN [err |-> "ErrDuplicate", m |-> m]
  ELSE [err |-> "nil", m |-> Append(m, dep)]

(* ------------------------- external collaborators --------------------- *)

\* repo.URL() of the repository deduced for a raw path
repoURL(path) == <<SchemeTok>> \o stripscheme(path)

\* wc.Revision(): the identifier of the state checked out, kept opaque
wcRevision(b, t, r) == "head"

\* wc.Branch(): the branch the working copy is on
wcBranch(b, t, r) == IF b # "" THEN b ELSE "master"

\* where a call of fetch can fail for reasons outside the program
StepFails == {"none", "read", "deduce", "checkout", "revision", "branch",
              "copy", "write", "destroy"}

\* a package: its import path and the import paths it references
Pkg(ip, imps) == [ImportPath |-> ip, Imports |-> imps]

RECURSIVE SeqsUpTo(_, _)
SeqsUpTo(S, n) ==
  IF n = 0 THEN {<<>>}
  ELSE LET shorter == SeqsUpTo(S, n - 1)
       IN shorter \cup {Append(s, x) : s \in {q \in shorter : Len(q) = n - 1}, x \in S}

\* what the checkout of a repository can hold at the import path fetched: no Go
\* package at all, or one package with some import list
NoPkg == [haspkg |-> FALSE, imps |-> <<>>]

\* go/build lists a package's imports sorted and without duplicates
Ascending(l) == \A i \in 1..Len(l) : \A j \in 1..Len(l) : i < j => StrLess(l[i], l[j])

ImportLists == {l \in SeqsUpTo(Names, MaxImports) : Ascending(l)}

Choices == {NoPkg} \cup {[haspkg |-> TRUE, imps |-> l] : l \in ImportLists}

\* the contents matter only to a step that gets as far as the copy
ChoicesFor(fail) == IF fail \in {"none", "write", "destroy"} THEN Choices ELSE {NoPkg}

\* the packages the loader finds under vendor/<d> once that was copied
Content(d, choice) == IF choice.haspkg THEN {Pkg(d, choice.imps)} ELSE {}

NoDir == [copied |-> "none", pkgs |-> {}]
FullDir(content) == [copied |-> "full", pkgs |-> content]

(* ------------------------------ findMissing --------------------------- *)

RECURSIVE fn(_, _, _)
RECURSIVE walkImports(_, _, _, _)
RECURSIVE walkImportsBreak(_, _, _, _)
RECURSIVE walkPkgs(_, _, _)

\* the packages of all depsets
allPkgs(dsm) == UNION {dsm[r] : r \in DOMAIN dsm}

\* the fake C package made for cgo: no import path, no imports
fakeC == Pkg(EmptyStr, <<>>)

\* variant: no entry is made for "C"
importTableNoC(dsm) ==
  [ip \in {p.ImportPath : p \in allPkgs(dsm)} |->
     CHOOSE p \in allPkgs(dsm) : p.ImportPath = ip]

\* the imports table. Two packages with one import path, which the code
\* resolves by map iteration order, do not occur in the depsets modelled.
importTable(dsm) ==
  [ip \in {p.ImportPath : p \in allPkgs(dsm)} \cup {CPath} |->
     IF ip = CPath THEN fakeC
     ELSE CHOOSE p \in allPkgs(dsm) : p.ImportPath = ip]

\* the closure state of findMissing; panic is "none" while it runs normally.
\* Three fields record the history of the call: pushes lists the import paths
\* in the order push added them to stk, calls lists the import paths of the
\* calls of fn in progress that went on to walk an import list (the current
\* depth-first path), and stkOk tells whether, after every push and pop so
\* far, stk held exactly the paths of calls, each once
fmStart ==
  [missing |-> {}, checked |-> {}, stk |-> {}, panic |-> "none", panicPath |-> EmptyStr,
   pushes |-> <<>>, calls |-> <<>>, stkOk |-> TRUE]

Panicked(st) == st.panic # "none"

push(st, v) ==
  IF v \in st.stk
  THEN [st EXCEPT !.panic = "import loop", !.panicPath = v]
  ELSE [st EXCEPT !.stk = @ \cup {v}, !.pushes = Append(@, v)]

pop(st, v) ==
  IF v \notin st.stk
  THEN [st EXCEPT !.panic = "impossible pop", !.panicPath = v]
  ELSE [st EXCEPT !.stk = @ \ {v}]

\* fn starts on the import list of importpath, and is done with it
enter(st, importpath) == [st EXCEPT !.calls = Append(@, importpath)]
leave(st) == [st EXCEPT !.calls = SubSeq(@, 1, Len(@) - 1)]

\* compares stk with the depth-first path, unless the call has panicked
observe(st) ==
  [st EXCEPT !.stkOk =
     @ /\ (Panicked(st) \/
           (/\ st.stk = {st.calls[i] : i \in 1..Len(st.calls)}
            /\ Cardinality(st.stk) = Len(st.calls)))]

\* imports[importpath] has no entry: the import is missing
recordMissing(st, importpath) == [st EXCEPT !.missing = @ \cup {importpath}]

\* variant: an arm that is being walked counts as walked
alreadyWalkedOrOnStack(st, importpath) == importpath \in st.checked \cup st.stk

\* have we already walked this arm
alreadyWalked(st, importpath) == importpath \in st.checked

\* variant: nothing is recorded in checked
markCheckedNever(st, importpath, sz) == st

\* if the size of the missing map has not changed, the subtree is complete
markChecked(st, importpath, sz) ==
  IF Cardinality(st.missing) = sz
  THEN [st EXCEPT !.checked = @ \cup {importpath}]
  ELSE st

\* variant: no import is taken for the package's own
selfImportNever(i, importpath) == FALSE

\* if i == importpath { continue }
selfImport(i, importpath) == i = importpath

\* variant: the range ends at the first import that adds to the missing map
walkImportsBreak(imports, importpath, list, st) ==
  IF list = <<>> \/ Panicked(st) THEN st
  ELSE LET nxt == IF selfImport(Head(list), importpath) THEN st
                  ELSE fn(imports, Head(list), st)
       IN IF nxt.missing # st.missing THEN nxt
          ELSE walkImportsBreak(imports, importpath, Tail(list), nxt)

\* for _, i := range p.Imports, skipping the package's own import path
walkImports(imports, importpath, list, st) ==
  IF list = <<>> \/ Panicked(st) THEN st
  ELSE walkImports(imports, importpath, Tail(list),
         IF selfImport(Head(list), importpath) THEN st
         ELSE fn(imports, Head(list), st))

fn(imports, importpath, st) ==
  IF Panicked(st) THEN st
  ELSE IF importpath \notin DOMAIN imports THEN recordMissing(st, importpath)
  ELSE IF alreadyWalked(st, importpath) THEN st
  ELSE LET sz == Cardinality(st.missing)
           pushed == observe(push(enter(st, importpath), importpath))
           walked == walkImports(imports, importpath, imports[importpath].Imports, pushed)
       IN IF Panicked(pushed) THEN pushed
          ELSE IF Panicked(walked) THEN walked
          ELSE observe(pop(leave(markChecked(walked, importpath, sz)), importpath))

\* for _, pkg := range pkgs
walkPkgs(imports, pkgs, st) ==
  IF pkgs = <<>> \/ Panicked(st) THEN st
  ELSE walkPkgs(imports, Tail(pkgs), fn(imports, Head(pkgs).ImportPath, st))

\* the closure state when findMissing returns or panics; its missing field
\* is the map returned
findMissing(pkgs, dsm) == walkPkgs(importTable(dsm), pkgs, fmStart)

RECURSIVE minStr(_)
\* keys, sort.Strings and keys[0]: the smallest key of a non-empty map
minStr(S) ==
  LET x == CHOOSE y \in S : TRUE
  IN IF S = {x} THEN x
     ELSE LET r == minStr(S \ {x}) IN IF StrLess(x, r) THEN x ELSE r

\* variant: the keys are not sorted, and the first may be the greatest
lastKey(miss) == CHOOSE x \in miss : \A y \in miss : ~StrLess(x, y)

firstKey(miss) == minStr(miss)

\* pkgs(): the values of a map as a slice, in some order
pkgsOrders(S) ==
  {s \in SeqsUpTo(S, Cardinality(S)) :
     Len(s) = Cardinality(S) /\ {s[i] : i \in 1..Len(s)} = S}

(* ------------------------------- state -------------------------------- *)

VARIABLES
  manifest,   \* the persisted manifest file: a sequence of Dependency records
  tree,       \* the vendor tree: for each import path, what lies under vendor/<path>
  branch,     \* package-level flag variable -branch
  tag,        \* package-level flag variable -tag
  revision,   \* package-level flag variable -revision
  pc,         \* "start": main has not yet run the command; "loop": the command
              \* is in its ForLoop; "returned": the top-level fetch has returned
  cmd,        \* the running or last command: its canonical path and recurse flag
  result,     \* what the last command returned ("running" while one runs)
  missing,    \* the missing map of the latest loop iteration of that command
  last,       \* the latest call of fetch that did one Fetch Step, and how it ended
  forLoop,    \* the ForLoop of the command: the iterations begun, and how many
              \* fetchable import paths the manifest lacked when it was entered
  fmIn,       \* findMissing model: the arguments pkgs and dsm
  fmOut       \* findMissing model: the closure state when the call ended

vars == <<manifest, tree, branch, tag, revision, pc, cmd, result, missing, last,
          forLoop, fmIn, fmOut>>
fmVars == <<fmIn, fmOut>>

(* ------------------------------ Fetch Step ---------------------------- *)

NoSel == [called |-> FALSE, branch |-> "", tag |-> "", revision |-> ""]
\* the arguments of repo.Checkout
Sel(b, t, r) == [called |-> TRUE, branch |-> b, tag |-> t, revision |-> r]

\* filepath.Join(vendorDir(global), importpath), for the project-local tree
vendorJoin(importpath) == <<"vendor/">> \o importpath
StdRoot == <<"GOROOT/src">>

Dependency(path, rawpath, rev, br) ==
  [Importpath |-> path, Repository |-> repoURL(rawpath), Revision |-> rev,
   Branch |-> br, Path |-> EmptyStr]

\* fileutils.Copypath(dst, src): the tree afterwards; a failed copy removes
\* what it wrote under dst
copied(tr, importpath, fail, choice) ==
  [tr EXCEPT ![importpath] =
     IF fail = "copy" THEN NoDir ELSE FullDir(Content(importpath, choice))]

\* variant: the manifest is written before the copy
commitWriteFirst(m, dep, fail, choice) ==
  LET added == AddDependency(m, dep)
      tr == copied(tree, dep.Importpath, fail, choice)
  IN IF added.err # "nil"
     THEN [err |-> added.err, manifest |-> manifest, tree |-> tree, wc |-> "live"]
     ELSE IF fail = "write"
     THEN [err |-> "ErrWrite", manifest |-> manifest, tree |-> tree, wc |-> "live"]
     ELSE IF fail = "copy"
     THEN [err |-> "ErrCopy", manifest |-> added.m, tree |-> tr, wc |-> "live"]
     ELSE IF fail = "destroy"
     THEN [err |-> "ErrDestroy", manifest |-> added.m, tree |-> tr, wc |-> "destroyed"]
     ELSE [err |-> "nil", manifest |-> added.m, tree |-> tr, wc |-> "destroyed"]

\* from m.AddDependency(dep) to wc.Destroy(): what is persisted, what is in the
\* tree, the state of the working copy and the error returned
commit(m, dep, fail, choice) ==
  LET added == AddDependency(m, dep)
      tr == copied(tree, dep.Importpath, fail, choice)
  IN IF added.err # "nil"
     THEN [err |-> added.err, manifest |-> manifest, tree |-> tree, wc |-> "live"]
     ELSE IF fail = "copy"
     THEN [err |-> "ErrCopy", manifest |-> manifest, tree |-> tr, wc |-> "live"]
     ELSE IF fail = "write"
     THEN [err |-> "ErrWrite", manifest |-> manifest, tree |-> tr, wc |-> "live"]
     ELSE IF fail = "destroy"
     THEN [err |-> "ErrDestroy", manifest |-> added.m, tree |-> tr, wc |-> "destroyed"]
     ELSE [err |-> "nil", manifest |-> added.m, tree |-> tr, wc |-> "destroyed"]

\* one call of fetch up to its return or to the test of recurse, with b, t, r
\* the package-level branch, tag and revision at the call: the error, the
\* persisted manifest and the tree afterwards, the working copy, the Checkout made
fetchStep(rawpath, b, t, r, fail, choice) ==
  LET m == manifest
      path == stripscheme(rawpath)
      sel == Sel(b, t, r)
      stop(e, w, s) ==
        [err |-> e, manifest |-> manifest, tree |-> tree, wc |-> w, sel |-> s,
         path |-> path, had |-> HasImportpath(manifest, path)]
  IN IF fail = "read" THEN stop("ErrManifestRead", "none", NoSel)
     ELSE IF fail = "deduce" THEN stop("ErrDeduce", "none", NoSel)
     ELSE IF HasImportpath(m, path) THEN stop("AlreadyErr", "none", NoSel)
     ELSE IF fail = "checkout" THEN stop("ErrCheckout", "none", sel)
     ELSE IF fail = "revision" THEN stop("ErrRevision", "live", sel)
     ELSE IF fail = "branch" THEN stop("ErrBranch", "live", sel)
     ELSE LET dep == Dependency(path, rawpath,
                                wcRevision(b, t, r), wcBranch(b, t, r))
              c == commit(m, dep, fail, choice)
          IN [err |-> c.err, manifest |-> c.manifest, tree |-> c.tree, wc |-> c.wc,
              sel |-> sel, path |-> path, had |-> FALSE]

\* the record kept of a Fetch Step: whether the loop called it, and then for
\* which missing map; the path fetched and whether the manifest had it; the
\* error returned, the working copy left, the Checkout made, and the persisted
\* manifest as it was when fetch was called
Last(step, looped, miss) ==
  [looped |-> looped, missing |-> miss, path |-> step.path, had |-> step.had,
   err |-> step.err, wc |-> step.wc, sel |-> step.sel, before |-> manifest]

\* if we are recursing, overwrite branch, tag and revision: branch names the
\* local variable declared by branch, err := wc.Branch(), so the package-level
\* branch keeps its value
recurseSelectors(b, t, r) == [branch |-> b, tag |-> "", revision |-> ""]

\* the top-level call of fetch returns res (or panics with it)
Return(res) ==
  /\ pc' = "returned"
  /\ result' = res
  /\ UNCHANGED <<branch, tag, revision>>

(* ---------------------------- recursive loop -------------------------- *)

stdPkgs == {Pkg(ip, <<>>) : ip \in StdPkgs}

\* vendor.LoadPaths over the GOROOT root and one root per dependency
LoadPaths(m, tr) ==
  [root \in {StdRoot} \cup {vendorJoin(d) : d \in manifestPaths(m)} |->
     IF root = StdRoot THEN stdPkgs
     ELSE tr[CHOOSE d \in manifestPaths(m) : vendorJoin(d) = root].pkgs]

\* variant: the loop also ends when one import is missing
loopDoneEarly(miss) == Cardinality(miss) <= 1

\* switch len(missing): case 0
loopDone(miss) == Cardinality(miss) = 0

\* variant: the sentinel does not end the loop
loopOnErrGoOn(err) ==
  IF err = "nil" \/ err = "AlreadyErr" THEN "continue" ELSE "return"

\* variant: the sentinel is returned like any other error
loopOnErrNoSentinel(err) == IF err = "nil" THEN "continue" ELSE "return"

\* what the loop does with the error of the fetch it made: go on, end the
\* command without error, or return the error
loopOnErr(err) ==
  IF err = "nil" THEN "continue"
  ELSE IF err = "AlreadyErr" THEN "break"
  ELSE "return"

LoopFails == StepFails \cup {"loop-read", "load"}

(* ------------------------------- actions ------------------------------ *)

NoCmd == [path |-> EmptyStr, recurse |-> FALSE]
NoLast ==
  [looped |-> FALSE, missing |-> {}, path |-> EmptyStr, had |-> FALSE, err |-> "nil",
   wc |-> "none", sel |-> NoSel, before |-> <<>>]
NoLoop == [iters |-> 0, unvendored |-> 0]

\* the import paths a repository can be deduced for that manifest m lacks
unvendored(m) == Names \ manifestPaths(m)

\* the dependency that gvt fetch -no-recurse d leaves in the manifest
Vendored(d) == Dependency(d, d, wcRevision("", "", ""), wcBranch("", "", ""))

\* the manifests that successful commands leave, fetched in ascending order
Persisted ==
  {m \in SeqsUpTo({Vendored(d) : d \in Names}, Cardinality(Names)) :
     \A i \in 1..Len(m) : \A j \in 1..Len(m) :
       i < j => StrLess(m[i].Importpath, m[j].Importpath)}

\* the process starts: the flag variables hold their defaults, and the
\* manifest file and vendor tree are as earlier commands left them
Init ==
  /\ manifest \in Persisted
  /\ \E ch \in [Names -> Choices] :
       tree = [d \in Names |->
                 IF HasImportpath(manifest, d) THEN FullDir(Content(d, ch[d]))
                 ELSE NoDir]
  /\ branch = ""
  /\ tag = ""
  /\ revision = ""
  /\ pc = "start"
  /\ cmd = NoCmd
  /\ result = "none"
  /\ missing = {}
  /\ last = NoLast
  /\ forLoop = NoLoop
  /\ fmIn = [pkgs |-> <<>>, dsm |-> <<>>]
  /\ fmOut = [done |-> FALSE, st |-> fmStart]

\* gvt fetch [-branch b] [-tag t] [-revision r] [-no-recurse] rawpath: the
\* flags are parsed and fetch(path, recurse, global) runs up to its loop
CmdFetch(rawpath, recurse, b, t, r, fail, choice) ==
  /\ pc = "start"
  /\ LET step == fetchStep(rawpath, b, t, r, fail, choice)
         sels == recurseSelectors(b, t, r)
     IN /\ manifest' = step.manifest
        /\ tree' = step.tree
        /\ last' = Last(step, FALSE, {})
        /\ cmd' = [path |-> step.path, recurse |-> recurse]
        /\ missing' = {}
        /\ forLoop' = IF step.err = "nil" /\ recurse
                      THEN [iters |-> 0,
                            unvendored |-> Cardinality(unvendored(step.manifest))]
                      ELSE forLoop
        /\ IF step.err # "nil" THEN Return(step.err)
           ELSE IF ~recurse THEN Return("nil")
           ELSE /\ pc' = "loop"
                /\ result' = "running"
                /\ branch' = sels.branch
                /\ tag' = sels.tag
                /\ revision' = sels.revision
  /\ UNCHANGED fmVars

\* one iteration of ForLoop: reload, analyse, and fetch the first missing import
LoopIter(fail, choice) ==
  /\ pc = "loop"
  /\ forLoop' = [forLoop EXCEPT !.iters = @ + 1]
  /\ LET m == manifest
         dsm == LoadPaths(m, tree)
         root == vendorJoin(cmd.path)
     IN IF fail = "loop-read" \/ fail = "load" \/ root \notin DOMAIN dsm
        THEN /\ Return(IF fail = "loop-read" THEN "ErrManifestRead"
                     ELSE IF fail = "load" THEN "ErrLoadPaths" ELSE "ErrNoDepset")
             /\ UNCHANGED <<manifest, tree, missing, last>>
        ELSE \E order \in pkgsOrders(dsm[root]) :
                LET fm == findMissing(order, dsm)
                IN IF Panicked(fm)
                   THEN /\ Return(IF fm.panic = "import loop" THEN "panic: import loop"
                                ELSE "panic: impossible pop")
                        /\ UNCHANGED <<manifest, tree, missing, last>>
                   ELSE /\ missing' = fm.missing
                        /\ IF loopDone(fm.missing)
                           THEN /\ Return("nil")
                                /\ UNCHANGED <<manifest, tree, last>>
                           ELSE LET pkg == firstKey(fm.missing)
                                    step == fetchStep(pkg, branch, tag, revision, fail, choice)
                                    todo == loopOnErr(step.err)
                                IN /\ manifest' = step.manifest
                                   /\ tree' = step.tree
                                   /\ last' = Last(step, TRUE, fm.missing)
                                   /\ IF todo = "continue"
                                      THEN UNCHANGED <<pc, result, branch, tag, revision>>
                                      ELSE Return(IF todo = "break" THEN "nil" ELSE step.err)
  /\ UNCHANGED <<cmd, fmVars>>

\* one more iteration of the loop, however its calls end
LoopStep == \E fail \in LoopFails : \E choice \in ChoicesFor(fail) : LoopIter(fail, choice)

Next ==
  \/ \E rawpath \in RawPaths, recurse \in BOOLEAN, f \in Flags, fail \in StepFails :
       \E choice \in ChoicesFor(fail) :
         CmdFetch(rawpath, recurse, f.branch, f.tag, f.revision, fail, choice)
  \/ LoopStep

Spec == Init /\ [][Next]_vars

\* an iteration of the loop, told by its count: in a behaviour of Spec the
\* steps that satisfy LoopTurn are the steps that satisfy LoopStep, and both
\* are enabled exactly when pc = "loop"
LoopTurn == pc = "loop" /\ forLoop' = [forLoop EXCEPT !.iters = @ + 1]

\* every call the loop makes returns, so an iteration that can begin is made
SpecLive == Spec /\ WF_forLoop(LoopTurn)

(* --------------------------- claims about fetch ----------------------- *)

\* a call of fetch has returned, or has reached the loop
stepped == pc # "start"

\* C1: when a call of fetch that obtained a working copy from Checkout has
\* returned, the working copy has been destroyed, on every exit path.
C1_WorkingCopyReleased == stepped => last.wc # "live"

\* C2: every Checkout made by a call of fetch that the recursive loop invoked
\* asks for empty branch, empty tag and empty revision.
C2_SelectorsDiscarded ==
  (stepped /\ last.looped /\ last.sel.called)
    => last.sel.branch = "" /\ last.sel.tag = "" /\ last.sel.revision = ""

\* C3: a call of fetch for an import path that the persisted manifest, once
\* loaded, already holds returns the AlreadyErr sentinel, whatever repository
\* deduction does, and makes no checkout.
C3_Idempotent ==
  (stepped /\ last.had /\ last.err # "ErrManifestRead")
    => last.err = "AlreadyErr" /\ ~last.sel.called /\ last.wc = "none"

\* the missing map that an analysis of the present manifest and tree yields for
\* the packages under the root of the command's path
missingNow ==
  LET dsm == LoadPaths(manifest, tree)
  IN findMissing(CHOOSE o \in pkgsOrders(dsm[vendorJoin(cmd.path)]) : TRUE, dsm)

recursedOk == pc = "returned" /\ cmd.recurse /\ result = "nil"

\* C4 as claimed: whenever a recursive fetch command returns nil, the missing
\* set computed on the final state is empty.
C4_CompleteDiscovery == recursedOk => missingNow.missing = {}

\* the loop ended on the sentinel: the fetch it made returned AlreadyErr
viaSentinel == last.looped /\ last.err = "AlreadyErr"

\* C4 as amended: whenever a recursive fetch command returns nil and its loop
\* did not end on the AlreadyErr sentinel, the missing set computed on the
\* final state is empty and the analysis does not panic.
C4_CompleteUnlessSentinel ==
  (recursedOk /\ ~viaSentinel) => ~Panicked(missingNow) /\ missingNow.missing = {}

\* a recursive command that fetched a missing import and then found none missing
C4_Witness ==
  /\ recursedOk
  /\ last.looped
  /\ last.err = "nil"
  /\ Len(manifest) >= 2

\* C5: the persisted manifest never holds two dependencies with one import path.
C5_Unique ==
  \A i \in 1..Len(manifest) : \A j \in 1..Len(manifest) :
    manifest[i].Importpath = manifest[j].Importpath => i = j

\* a command added a dependency to a manifest that held one, and its loop then
\* asked for the one the manifest held
C5_Witness ==
  /\ Len(manifest) >= 2
  /\ manifest[Len(manifest)].Branch = "dev"
  /\ pc = "returned"
  /\ last.looped
  /\ last.had
  /\ last.err = "AlreadyErr"

\* C6: after a call of fetch whose copy failed the persisted manifest has no
\* dependency for its path; and every dependency of the persisted manifest has
\* its files copied into the vendor tree.
C6_CopyBeforeCommit ==
  /\ (stepped /\ last.err = "ErrCopy") => ~HasImportpath(manifest, last.path)
  /\ \A d \in manifestPaths(manifest) : tree[d].copied = "full"

\* a copy failed in the loop of a command that had vendored its own path
C6_Witness ==
  /\ pc = "returned"
  /\ last.looped
  /\ last.err = "ErrCopy"
  /\ result = "ErrCopy"
  /\ manifest # <<>>

C9_SentinelEndsLoop ==
  (stepped /\ last.looped /\ last.err # "nil")
    => /\ pc = "returned"
       /\ result = IF last.err = "AlreadyErr" THEN "nil" ELSE last.err

\* the loop asked for an import that the manifest already held
C9_Witness ==
  /\ pc = "returned"
  /\ last.looped
  /\ last.err = "AlreadyErr"
  /\ result = "nil"
  /\ last.missing # {}

\* this step is an iteration of the loop that computed its missing map: it
\* made a fetch, or found nothing missing
analysed == last' # last \/ (pc' = "returned" /\ result' = "nil")

\* this step is an iteration that follows a successful fetch made by the loop
afterLoopFetch == pc = "loop" /\ last.looped /\ last.err = "nil" /\ analysed

C15_LoopTerminates ==
  /\ [][pc = "loop"
          => \/ pc' = "returned"
             \/ /\ Len(manifest') = Len(manifest) + 1
                /\ SubSeq(manifest', 1, Len(manifest)) = manifest
                /\ ~HasImportpath(manifest, manifest'[Len(manifest')].Importpath)]_vars
  /\ [](forLoop.iters <= forLoop.unvendored + 1)
  /\ (pc = "loop") ~> (pc = "returned")

\* a command that found b and c unvendored fetched both and then found none
\* missing: three iterations
C15_Witness ==
  /\ pc = "returned"
  /\ result = "nil"
  /\ forLoop.unvendored = 2
  /\ forLoop.iters = 3
  /\ Len(manifest) = 3

\* C18: when the Fetch Step of a call of fetch has returned an error or the
\* sentinel, the persisted manifest is as it was when fetch was called, and the
\* vendor tree holds no files at an import path the persisted manifest lacks.
C18_FailureAtomic ==
  (stepped /\ last.err # "nil")
    => /\ manifest = last.before
       /\ \A d \in Names : tree[d].copied # "none" => HasImportpath(manifest, d)

(* ------------------- findMissing as a function of its arguments ------- *)

\* what a package handed to findMissing may import
FMAlphabet == Names \cup {CPath}

\* the depsets of LoadPaths when the packages ps lie under their own roots
fmDsm(ps) ==
  [root \in {StdRoot} \cup {vendorJoin(p.ImportPath) : p \in ps} |->
     IF root = StdRoot THEN stdPkgs
     ELSE {CHOOSE p \in ps : vendorJoin(p.ImportPath) = root}]

RECURSIVE pkgSets(_, _)
\* the choices of one package for each import path of S, with n imports at most
\* between them
pkgSets(S, n) ==
  IF S = {} THEN {{}}
  ELSE LET d == CHOOSE x \in S : TRUE
           lists == SeqsUpTo(FMAlphabet, n)
       IN UNION {LET rests == pkgSets(S \ {d}, n - k)
                 IN {{Pkg(d, l)} \cup rest :
                       l \in {q \in lists : Len(q) = k}, rest \in rests} :
                 k \in 0..n}

\* the values of a map, as pkgs() lists them, are different packages
Distinct(l) == \A i \in 1..Len(l) : \A j \in 1..Len(l) : l[i] = l[j] => i = j

\* every choice of present packages, each with an import list, with n imports at
\* most between them
FMPkgSets(n) == UNION {pkgSets(present, n) : present \in SUBSET Names}

InitFM ==
  /\ manifest = <<>>
  /\ tree = [d \in Names |-> NoDir]
  /\ branch = ""
  /\ tag = ""
  /\ revision = ""
  /\ pc = "start"
  /\ cmd = NoCmd
  /\ result = "none"
  /\ missing = {}
  /\ last = NoLast
  /\ forLoop = NoLoop
  /\ \E ps \in FMPkgSets(MaxFMEdges) :
       \E targets \in SeqsUpTo(ps, MaxTargets) :
         /\ Distinct(targets)
         /\ fmIn = [pkgs |-> targets, dsm |-> fmDsm(ps)]
  /\ fmOut = [done |-> FALSE, st |-> fmStart]

\* missing := findMissing(pkgs, dsm)
FMCall ==
  /\ ~fmOut.done
  /\ fmOut' = [done |-> TRUE, st |-> findMissing(fmIn.pkgs, fmIn.dsm)]
  /\ UNCHANGED <<manifest, tree, branch, tag, revision, pc, cmd, result,
                 missing, last, forLoop, fmIn>>

NextFM == FMCall

SpecFM == InitFM /\ [][NextFM]_vars

(* ------------------------ claims about findMissing -------------------- *)

\* the import paths of the packages the roots provide
rootPaths(dsm) == {p.ImportPath : p \in allPkgs(dsm)}

\* the imports of import path x, if some root provides a package for it
importsOf(dsm, x) ==
  IF x \in rootPaths(dsm)
  THEN LET p == CHOOSE q \in allPkgs(dsm) : q.ImportPath = x
       IN {p.Imports[i] : i \in 1..Len(p.Imports)}
  ELSE {}

RECURSIVE reachFrom(_, _)
\* the import paths reached from those of S by chains of imports
reachFrom(dsm, S) ==
  LET T == S \cup UNION {importsOf(dsm, x) : x \in S}
  IN IF T = S THEN S ELSE reachFrom(dsm, T)

\* the import paths reached from x by a chain of one import or more
reachBeyond(dsm, x) == reachFrom(dsm, importsOf(dsm, x))

\* x lies on a cycle of two packages or more
onLongCycle(dsm, x) ==
  \E y \in (reachBeyond(dsm, x) \cap rootPaths(dsm)) \ {x} : x \in reachBeyond(dsm, y)

targetPaths(pkgs) == {pkgs[i].ImportPath : i \in 1..Len(pkgs)}

\* absent from every root, not the C pseudo path, and reached from a target
missingOf(pkgs, dsm) ==
  {q \in reachFrom(dsm, targetPaths(pkgs)) : q \notin rootPaths(dsm) /\ q # CPath}

\* C7: when the import graph has no cycle of two packages or more, findMissing
\* returns exactly the import paths that no root provides, that are not "C",
\* and that are reached from a target through packages the roots provide.
C7_MissingSetCorrect ==
  (fmOut.done /\ \A x \in rootPaths(fmIn.dsm) : ~onLongCycle(fmIn.dsm, x))
    => /\ ~Panicked(fmOut.st)
       /\ fmOut.st.missing = missingOf(fmIn.pkgs, fmIn.dsm)

\* the spec's second example: a imports b, b imports c, only a and b present
C7_Witness ==
  /\ fmOut.done
  /\ allPkgs(fmIn.dsm) = stdPkgs \cup {Pkg(<<"a">>, <<<<"b">>>>), Pkg(<<"b">>, <<<<"c">>>>)}
  /\ fmIn.pkgs = <<Pkg(<<"a">>, <<<<"b">>>>)>>
  /\ fmOut.st.missing = {<<"c">>}

\* a cycle of two packages or more is reached from a target
cycleReached(pkgs, dsm) ==
  \E x \in reachFrom(dsm, targetPaths(pkgs)) : onLongCycle(dsm, x)

\* C10: when a cycle of two packages or more is reached from a target,
\* findMissing ends in the "import loop" panic, which names an import path that
\* is on the visitation stack; it returns no missing set.
C10_CycleFault ==
  (fmOut.done /\ cycleReached(fmIn.pkgs, fmIn.dsm))
    => /\ fmOut.st.panic = "import loop"
       /\ fmOut.st.panicPath \in fmOut.st.stk

\* the spec's example: a imports b, b imports a
C10_Witness ==
  /\ fmOut.done
  /\ allPkgs(fmIn.dsm) = stdPkgs \cup {Pkg(<<"a">>, <<<<"b">>>>), Pkg(<<"b">>, <<<<"a">>>>)}
  /\ fmIn.pkgs = <<Pkg(<<"a">>, <<<<"b">>>>)>>
  /\ fmOut.st.panic = "import loop"

(* ------------------- the manifest key of an import path argument ------ *)

KeyHosts == {"a", "b"}

\* host, host:port, host/x, host:port/x, ...
KeyBodies ==
  {b \in {<<h>> \o port \o segs :
            h \in KeyHosts, port \in {<<>>, <<PortTok>>},
            segs \in SeqsUpTo({SegTok}, MaxKeyToks)} : Len(b) <= MaxKeyToks}

\* the import path arguments given with a scheme
KeyRaws == {<<SchemeTok>> \o b : b \in KeyBodies}

\* the directories of the vendor tree that these arguments can name
KeyPaths == KeyBodies \cup {EmptyStr}

\* the dependency that gvt fetch -no-recurse raw records
Fetched(raw) ==
  Dependency(stripscheme(raw), raw, wcRevision("", "", ""), wcBranch("", "", ""))

\* the process starts in a project where one earlier command fetched an import
\* path given with a scheme, whose repository holds no package
InitKeys ==
  /\ \E raw \in KeyRaws : manifest = <<Fetched(raw)>>
  /\ tree = [d \in KeyPaths |->
               IF HasImportpath(manifest, d) THEN FullDir({}) ELSE NoDir]
  /\ branch = ""
  /\ tag = ""
  /\ revision = ""
  /\ pc = "start"
  /\ cmd = NoCmd
  /\ result = "none"
  /\ missing = {}
  /\ last = NoLast
  /\ forLoop = NoLoop
  /\ fmIn = [pkgs |-> <<>>, dsm |-> <<>>]
  /\ fmOut = [done |-> FALSE, st |-> fmStart]

\* gvt fetch -no-recurse of the import path fetched earlier, given with its
\* scheme as before or without it
NextKeys ==
  \E raw \in KeyRaws :
    /\ manifest = <<Fetched(raw)>>
    /\ \E raw2 \in {raw, stripscheme(raw)}, f \in Flags, fail \in StepFails :
         CmdFetch(raw2, FALSE, f.branch, f.tag, f.revision, fail, NoPkg)

SpecKeys == InitKeys /\ [][NextKeys]_vars

\* C19: when an import path that was fetched before with its scheme is fetched
\* again, with or without the scheme, the path that fetch tests against the
\* manifest is the key recorded by the earlier fetch, stripping it again
\* leaves it as it is, and fetch returns AlreadyErr (given that the manifest
\* was read and the repository deduced).
C19_CanonicalKey ==
  pc = "returned"
    => /\ cmd.path = manifest[1].Importpath
       /\ stripscheme(cmd.path) = cmd.path
       /\ last.err \notin {"ErrManifestRead", "ErrDeduce"} => last.err = "AlreadyErr"

(* ------------------- more claims about findMissing -------------------- *)

\* how often push put x on the visitation stack
pushCount(st, x) == Cardinality({i \in 1..Len(st.pushes) : st.pushes[i] = x})

\* no package is reached from its own imports, not even by a self-import
acyclic(dsm) == \A x \in rootPaths(dsm) : x \notin reachBeyond(dsm, x)

\* the only cycles are self-imports
noLongCycle(dsm) == \A x \in rootPaths(dsm) : ~onLongCycle(dsm, x)

\* C11: in one call of findMissing on an acyclic import graph, every present
\* package is pushed on the visitation stack at most once, whether or not a
\* missing import is reached from it.
C11_PushedOnce ==
  (fmOut.done /\ acyclic(fmIn.dsm))
    => \A x \in rootPaths(fmIn.dsm) \cup {CPath} : pushCount(fmOut.st, x) <= 1

\* the import paths that are reached from x and that the import table lacks
absentBelow(dsm, x) ==
  {q \in reachFrom(dsm, {x}) : q \notin rootPaths(dsm) /\ q # CPath}

Reverse(l) == [i \in 1..Len(l) |-> l[Len(l) + 1 - i]]

\* the same packages under the same roots, each import list back to front
reversedImports(dsm) ==
  [root \in DOMAIN dsm |-> {Pkg(p.ImportPath, Reverse(p.Imports)) : p \in dsm[root]}]

\* C12: on an import graph whose only cycles are self-imports, the missing set
\* of one call over the targets T is the union of the missing sets of the calls
\* on each single target; it is the same with T in the opposite order and with
\* every import list reversed; and a package from which nothing missing is
\* reached is pushed at most once.
C12_MemoTransparent ==
  (fmOut.done /\ noLongCycle(fmIn.dsm))
    => LET pkgs == fmIn.pkgs
           dsm == fmIn.dsm
           got == fmOut.st.missing
       IN /\ ~Panicked(fmOut.st)
          /\ got = UNION {findMissing(<<pkgs[i]>>, dsm).missing : i \in 1..Len(pkgs)}
          /\ findMissing(Reverse(pkgs), dsm).missing = got
          /\ findMissing(pkgs, reversedImports(dsm)).missing = got
          /\ \A x \in rootPaths(dsm) :
                absentBelow(dsm, x) = {} => pushCount(fmOut.st, x) <= 1

\* two targets a and b that both import c, which has all it needs
C12_Witness ==
  /\ fmOut.done
  /\ fmIn.pkgs = <<Pkg(<<"a">>, <<<<"c">>>>), Pkg(<<"b">>, <<<<"c">>>>)>>
  /\ Pkg(<<"c">>, <<>>) \in allPkgs(fmIn.dsm)
  /\ fmOut.st.pushes = <<<<"a">>, <<"c">>, <<"b">>>>

\* C13: whatever the roots and the import graph, the missing set never holds
\* "C", and a panic of findMissing never names "C".
C13_InteropExempt ==
  fmOut.done => CPath \notin fmOut.st.missing /\ fmOut.st.panicPath # CPath

\* "C" was imported and visited
C13_Witness ==
  /\ fmOut.done
  /\ ~Panicked(fmOut.st)
  /\ CPath \notin rootPaths(fmIn.dsm)
  /\ pushCount(fmOut.st, CPath) = 1
  /\ CPath \in fmOut.st.checked
  /\ fmOut.st.missing # {}

\* C16: every import path in checked is a package from which no import path is
\* reached that the import table lacks. checked only grows during a call, so
\* it holds at every point of the call if it holds for checked at the end.
C16_CheckedComplete ==
  fmOut.done => \A x \in fmOut.st.checked : absentBelow(fmIn.dsm, x) = {}

\* C17: on an import graph whose only cycles are self-imports findMissing does
\* not panic, the visitation stack held the depth-first path after every push
\* and pop, and it is empty at the return.
C17_NoFalseFault ==
  (fmOut.done /\ noLongCycle(fmIn.dsm))
    => /\ fmOut.st.panic = "none"
       /\ fmOut.st.stkOk
       /\ fmOut.st.stk = {}
       /\ fmOut.st.calls = <<>>

\* a and b import themselves; a, with c missing, is visited again from b
C17_Witness ==
  /\ fmOut.done
  /\ fmIn.pkgs = <<Pkg(<<"a">>, <<<<"a">>, <<"c">>>>), Pkg(<<"b">>, <<<<"b">>, <<"a">>>>)>>
  /\ <<"c">> \notin rootPaths(fmIn.dsm)
  /\ fmOut.st.pushes = <<<<"a">>, <<"b">>, <<"a">>>>
  /\ fmOut.st.missing = {<<"c">>}

====
